---- MODULE Spec2Model ----
(***************************************************************************)
(* Model of app.py, the BYU historical opponent dashboard: the opponent    *)
(* name canonicalizer, the NCAA scoreboard fetch, load_data, the two admin *)
(* merge paths and the Streamlit script run with its widgets.              *)
(*                                                                         *)
(* Text is modelled as sequences of one-character strings so that strip,   *)
(* replace, endswith and title act on characters as Python's str does.     *)
(***************************************************************************)
EXTENDS Integers, Sequences, FiniteSets, TLC

VARIABLES
    pc,            \* position of the operation under study
    name,          \* clean_opponent_name: its argument
    cleaned,       \* clean_opponent_name: its return value
    csv,           \* Sporting_Events.csv: whether the file exists, and its rows
    today,         \* the current date (pd.Timestamp.now(), datetime.date.today())
    df,            \* the DataFrame load_data returned
    clicked,       \* the button whose click triggered the script run
    new_data,      \* the incoming batch: new_ncaa_df, or new_data of the upload
    updated_df,    \* the merged DataFrame
    response,      \* the outcome of requests.get on the scoreboard URL
    sport_slug,    \* fetch_ncaa_results: its sport_slug argument
    results,       \* what fetch_ncaa_results returned or raised
    mode,          \* the "View Mode" radio
    password,      \* the "Enter Admin Password" text input
    secret,        \* st.secrets["ADMIN_PASSWORD"], or "unset"
    sport_selection,   \* the "Select Sport" selectbox
    uploaded_file,     \* the "Upload CSV" file uploader
    selected_opponent, \* the "Select Opponent" selectbox
    cache,         \* st.cache_data's entry for load_data
    rendered,      \* the widgets the last run put on the page
    run            \* what the last run of the script did

cleanVars == <<name, cleaned>>
dataVars == <<csv, today, df>>
mergeVars == <<clicked, new_data, updated_df>>
fetchVars == <<response, sport_slug, results>>
appVars == <<mode, password, secret, sport_selection, uploaded_file, selected_opponent,
             cache, rendered, run>>
vars == <<pc, cleanVars, dataVars, mergeVars, fetchVars, appVars>>

None == [none |-> TRUE]

----------------------------------------------------------------------------
(* Python str helpers *)

Prefix(s, n) == SubSeq(s, 1, n)

Suffix(s, n) == SubSeq(s, n, Len(s))

\* str.startswith at offset i (1-based)
MatchesAt(s, i, sub) ==
    /\ i + Len(sub) - 1 <= Len(s)
    /\ SubSeq(s, i, i + Len(sub) - 1) = sub

\* str.endswith
endswith(s, suf) ==
    /\ Len(suf) <= Len(s)
    /\ Suffix(s, Len(s) - Len(suf) + 1) = suf

RECURSIVE lstrip(_)
lstrip(s) == IF s # <<>> /\ Head(s) = " " THEN lstrip(Tail(s)) ELSE s

RECURSIVE rstrip(_)
rstrip(s) == IF s # <<>> /\ s[Len(s)] = " " THEN rstrip(Prefix(s, Len(s) - 1)) ELSE s

\* str.strip()
strip(s) == rstrip(lstrip(s))

\* str.replace(old, new): every non-overlapping occurrence, left to right
RECURSIVE replace(_, _, _)
replace(s, old, new) ==
    IF s = <<>> THEN <<>>
    ELSE IF MatchesAt(s, 1, old) THEN new \o replace(Suffix(s, Len(old) + 1), old, new)
    ELSE <<Head(s)>> \o replace(Tail(s), old, new)

----------------------------------------------------------------------------
(* clean_opponent_name *)

mappings ==
       (<<"S", "D", "S", "U">> :> <<"S", "a", "n", " ", "D", "i", "e", "g", "o", " ", "S", "t", "a", "t", "e">>)
    @@ (<<"S", "a", "n", " ", "D", "i", "e", "g", "o", " ", "S", "t", ".">> :> <<"S", "a", "n", " ", "D", "i", "e", "g", "o", " ", "S", "t", "a", "t", "e">>)
    @@ (<<"S", "a", "n", " ", "D", "i", "e", "g", "o", " ", "S", "t">> :> <<"S", "a", "n", " ", "D", "i", "e", "g", "o", " ", "S", "t", "a", "t", "e">>)
    @@ (<<"B", "o", "i", "s", "e", " ", "S", "t">> :> <<"B", "o", "i", "s", "e", " ", "S", "t", "a", "t", "e">>)
    @@ (<<"B", "o", "i", "s", "e", " ", "S", "t", ".">> :> <<"B", "o", "i", "s", "e", " ", "S", "t", "a", "t", "e">>)
    @@ (<<"U", "V", "U">> :> <<"U", "t", "a", "h", " ", "V", "a", "l", "l", "e", "y">>)
    @@ (<<"U", "t", "a", "h", " ", "V", "a", "l", "l", "e", "y", " ", "S", "t", "a", "t", "e">> :> <<"U", "t", "a", "h", " ", "V", "a", "l", "l", "e", "y">>)
    @@ (<<"U", "S", "C">> :> <<"S", "o", "u", "t", "h", "e", "r", "n", " ", "C", "a", "l", "i", "f", "o", "r", "n", "i", "a">>)
    @@ (<<"S", "o", "u", "t", "h", "e", "r", "n", " ", "C", "a", "l">> :> <<"S", "o", "u", "t", "h", "e", "r", "n", " ", "C", "a", "l", "i", "f", "o", "r", "n", "i", "a">>)
    @@ (<<"O", "l", "e", " ", "M", "i", "s", "s">> :> <<"M", "i", "s", "s", "i", "s", "s", "i", "p", "p", "i">>)
    @@ (<<"L", "S", "U">> :> <<"L", "o", "u", "i", "s", "i", "a", "n", "a", " ", "S", "t", "a", "t", "e">>)
    @@ (<<"W", "a", "s", "h", " ", "S", "t">> :> <<"W", "a", "s", "h", "i", "n", "g", "t", "o", "n", " ", "S", "t", "a", "t", "e">>)
    @@ (<<"F", "r", "e", "s", "n", "o", " ", "S", "t">> :> <<"F", "r", "e", "s", "n", "o", " ", "S", "t", "a", "t", "e">>)

Univ == <<" ", "U", "n", "i", "v">>

clean_opponent_name(raw) ==
    LET n == strip(raw) IN
    IF n \in DOMAIN mappings THEN mappings[n]
    ELSE LET m == replace(n, <<".">>, <<>>) IN
         IF endswith(m, Univ) THEN replace(m, Univ, <<>>) ELSE m

----------------------------------------------------------------------------
(* Cell values.  A text cell is a character sequence; NaN, the missing     *)
(* cell of pandas, is the one-element sequence <<"NaN">>, which no text    *)
(* equals.  A Date cell is tagged with what it holds: the string           *)
(* read from a CSV or built by strftime ("str"), text that is no date      *)
(* ("junk"), an empty cell ("nan"), a pandas Timestamp ("ts") or NaT.      *)

NaN == <<"NaN">>

StrDate(y, d) == [kind |-> "str", y |-> y, d |-> d]

JunkDate == [kind |-> "junk", y |-> 0, d |-> 0]

NanDate == [kind |-> "nan", y |-> 0, d |-> 0]

Timestamp(y, d) == [kind |-> "ts", y |-> y, d |-> d]

NaT == [kind |-> "nat", y |-> 0, d |-> 0]

\* pd.to_datetime(cell, errors='coerce') on one cell
to_datetime(cell) ==
    IF cell.kind \in {"str", "ts"} THEN Timestamp(cell.y, cell.d) ELSE NaT

\* Series.fillna(value)
fillna(cell, value) == IF cell = NaN THEN value ELSE cell

\* Series.astype(str)
astype_str(cell) == IF cell = NaN THEN <<"n", "a", "n">> ELSE cell

LowerCase ==
    <<"a", "b", "c", "d", "e", "f", "g", "h", "i", "j", "k", "l", "m",
      "n", "o", "p", "q", "r", "s", "t", "u", "v", "w", "x", "y", "z">>

UpperCase ==
    <<"A", "B", "C", "D", "E", "F", "G", "H", "I", "J", "K", "L", "M",
      "N", "O", "P", "Q", "R", "S", "T", "U", "V", "W", "X", "Y", "Z">>

IsLower(c) == \E i \in DOMAIN LowerCase : LowerCase[i] = c

IsUpper(c) == \E i \in DOMAIN UpperCase : UpperCase[i] = c

IsCased(c) == IsLower(c) \/ IsUpper(c)

upper(c) == IF IsLower(c) THEN UpperCase[CHOOSE i \in DOMAIN LowerCase : LowerCase[i] = c] ELSE c

lower(c) == IF IsUpper(c) THEN LowerCase[CHOOSE i \in DOMAIN UpperCase : UpperCase[i] = c] ELSE c

\* str.title(): a cased character is upper-cased after an uncased one (or at the
\* start) and lower-cased after a cased one; every other character is kept
RECURSIVE title_from(_, _)
title_from(s, prev_cased) ==
    IF s = <<>> THEN <<>>
    ELSE IF IsCased(Head(s))
         THEN <<IF prev_cased THEN lower(Head(s)) ELSE upper(Head(s))>> \o title_from(Tail(s), TRUE)
         ELSE <<Head(s)>> \o title_from(Tail(s), FALSE)

title(s) == title_from(s, FALSE)

----------------------------------------------------------------------------
(* load_data *)

Unknown == <<"U", "n", "k", "n", "o", "w", "n">>

JunkNames ==
    { <<"O", "p", "p">>,
      <<"O", "p", "p", "o", "n", "e", "n", "t">>,
      <<"T", "B", "D">>,
      Unknown,
      <<"n", "a", "n">> }

\* the guard as it would be with the "+ 1" left out
year_guard_this_year(date, now) == date # NaT /\ date.y <= now.y

\* Series.dt.year <= current_year + 1; the year of NaT is NaN and NaN <= n is False
year_guard(date, now) == date # NaT /\ date.y <= now.y + 1

\* a CSV file on disk, and the absence of one
File(rows) == [exists |-> TRUE, rows |-> rows]

NoFile == [exists |-> FALSE, rows |-> <<>>]

\* pd.read_csv: each row with its index
read_csv(file) ==
    [i \in DOMAIN file |->
        [index |-> i - 1, Date |-> file[i].Date, Sport |-> file[i].Sport,
         OpposingTeam |-> file[i].OpposingTeam, Score |-> file[i].Score,
         Result |-> file[i].Result]]

\* the body of load_data on the rows of the file
load_rows(file, now) ==
    LET raw == read_csv(file)
        dated == [i \in DOMAIN raw |-> [raw[i] EXCEPT !.Date = to_datetime(raw[i].Date)]]
        InGuard(r) == year_guard(r.Date, now)
        guarded == SelectSeq(dated, InGuard)
        named == [i \in DOMAIN guarded |->
                    LET opponent_raw == astype_str(fillna(guarded[i].OpposingTeam, Unknown)) IN
                    [index |-> guarded[i].index,
                     Date |-> guarded[i].Date,
                     Sport |-> guarded[i].Sport,
                     Opponent_Raw |-> opponent_raw,
                     OpposingTeam |-> clean_opponent_name(opponent_raw),
                     Score |-> guarded[i].Score,
                     Result |-> title(astype_str(guarded[i].Result))]]
        NotJunk(r) == r.OpposingTeam \notin JunkNames
    IN SelectSeq(named, NotJunk)

\* load_data: FileNotFoundError gives the empty DataFrame
load_data(file, now) == IF ~file.exists THEN <<>> ELSE load_rows(file.rows, now)

----------------------------------------------------------------------------
(* The two admin merges and save_to_github's CSV text *)

\* pd.concat([new, old], ignore_index=True): the union of the columns, a column a
\* frame lacks filled with NaN, the index renumbered
concat(new, old) ==
    [i \in 1..(Len(new) + Len(old)) |->
        IF i <= Len(new)
        THEN [index |-> i - 1, Date |-> new[i].Date, Sport |-> new[i].Sport,
              Opponent_Raw |-> NaN, OpposingTeam |-> new[i].OpposingTeam,
              Score |-> new[i].Score, Result |-> new[i].Result]
        ELSE [old[i - Len(new)] EXCEPT !.index = i - 1]]

\* the subset as it would be with 'Date' left out
subset_without_date(r) == <<r.Sport, r.OpposingTeam>>

\* the subset=['Date', 'Sport', 'Opposing Team'] of drop_duplicates: the cells as
\* they stand in the frame
subset(r) == <<r.Date, r.Sport, r.OpposingTeam>>

\* DataFrame.drop_duplicates(subset=..., keep='first')
drop_duplicates(frame) ==
    LET IsFirst(r) == \A j \in DOMAIN frame :
                         frame[j].index < r.index => subset(frame[j]) # subset(r)
    IN SelectSeq(frame, IsFirst)

\* updated_df of "Confirm & Save to Database" and of "Merge Manual Upload"
merge(new, old) == drop_duplicates(concat(new, old))

\* the text DataFrame.to_csv writes for a Date cell
date_text(cell) ==
    IF cell.kind = "ts" THEN StrDate(cell.y, cell.d)
    ELSE IF cell.kind = "nat" THEN NanDate
    ELSE cell

\* new_df.to_csv(index=False), as pd.read_csv reads it back (the Opponent_Raw
\* column is written too and overwritten by load_data)
to_csv(frame) ==
    [i \in DOMAIN frame |->
        [Date |-> date_text(frame[i].Date), Sport |-> frame[i].Sport,
         OpposingTeam |-> frame[i].OpposingTeam, Score |-> frame[i].Score,
         Result |-> frame[i].Result]]

----------------------------------------------------------------------------
(* fetch_ncaa_results *)

\* a key a dict of the feed lacks: subscripting it raises KeyError
Missing == <<"KeyError">>

BYU == <<"B", "Y", "U">>

\* Python's `sub in s` on strings
Contains(s, sub) == \E i \in 1..(Len(s) + 1) : MatchesAt(s, i, sub)

Digits == <<"0", "1", "2", "3", "4", "5", "6", "7", "8", "9">>

IsDigit(c) == \E i \in DOMAIN Digits : Digits[i] = c

DigitValue(c) == (CHOOSE i \in DOMAIN Digits : Digits[i] = c) - 1

RECURSIVE DigitsValue(_)
DigitsValue(s) ==
    IF s = <<>> THEN 0 ELSE 10 * DigitsValue(Prefix(s, Len(s) - 1)) + DigitValue(s[Len(s)])

Unsigned(s) == IF s # <<>> /\ Head(s) \in {"+", "-"} THEN Tail(s) ELSE s

\* whether int(s) returns; it raises ValueError otherwise
IsIntLiteral(s) ==
    LET u == Unsigned(strip(s)) IN u # <<>> /\ \A i \in DOMAIN u : IsDigit(u[i])

\* int(s)
int(s) ==
    LET t == strip(s)
        v == DigitsValue(Unsigned(t))
    IN IF t # <<>> /\ Head(t) = "-" THEN 0 - v ELSE v

\* datetime.date.today() - datetime.timedelta(days=1), in a calendar of
\* DaysPerYear days
DaysPerYear == 2

yesterday_of(now) ==
    IF now.d > 1 THEN [y |-> now.y, d |-> now.d - 1] ELSE [y |-> now.y - 1, d |-> DaysPerYear]

\* sport_slug.replace("-", " ").title().replace("Mens", "Men's").replace("Womens", "Women's")
sport_label(slug) ==
    replace(replace(title(replace(slug, <<"-">>, <<" ">>)),
                    <<"M", "e", "n", "s">>, <<"M", "e", "n", "'", "s">>),
            <<"W", "o", "m", "e", "n", "s">>, <<"W", "o", "m", "e", "n", "'", "s">>)

Win == <<"W", "i", "n">>

Loss == <<"L", "o", "s", "s">>

Tie == <<"T", "i", "e">>

\* the outcome of a block of code: the value it yields, or the exception it raises
Value(v) == [exc |-> "none", skip |-> FALSE, value |-> v]

Raise(e) == [exc |-> e, skip |-> FALSE, value |-> <<>>]

Skip == [exc |-> "none", skip |-> TRUE, value |-> <<>>]

\* one iteration of `for game in games`: the dict appended to found_games, Skip
\* for a continue or a game without the team, or the exception that leaves the loop
one_game(game, team_name, slug, yesterday) ==
    IF game.home = Missing \/ game.away = Missing THEN Skip
    ELSE IF ~(Contains(game.home, team_name) \/ Contains(game.away, team_name)) THEN Skip
    ELSE
      LET is_home == Contains(game.home, team_name)
          my_score == IF is_home THEN game.home_score ELSE game.away_score
          op_score == IF is_home THEN game.away_score ELSE game.home_score
      IN IF my_score = Missing \/ op_score = Missing THEN Skip
         ELSE IF ~IsIntLiteral(my_score) \/ ~IsIntLiteral(op_score) THEN Raise("ValueError")
         ELSE Value([Date |-> StrDate(yesterday.y, yesterday.d),
                     Sport |-> sport_label(slug),
                     OpposingTeam |-> IF is_home THEN game.away ELSE game.home,
                     Score |-> my_score \o <<"-">> \o op_score,
                     Result |-> IF int(my_score) > int(op_score) THEN Win
                                ELSE IF int(my_score) < int(op_score) THEN Loss
                                ELSE Tie])

\* the for loop over games
RECURSIVE scan_games(_, _, _, _, _)
scan_games(games, found_games, team_name, slug, yesterday) ==
    IF games = <<>> THEN Value(found_games)
    ELSE LET step == one_game(Head(games), team_name, slug, yesterday) IN
         IF step.exc # "none" THEN step
         ELSE scan_games(Tail(games),
                         IF step.skip THEN found_games
                         ELSE Append(found_games, step.value),
                         team_name, slug, yesterday)

\* the body of the try block
fetch_body(resp, team_name, slug, yesterday) ==
    IF resp.kind = "exception" THEN Raise(resp.exc)
    ELSE IF resp.status_code # 200 THEN Value(<<>>)
    ELSE IF resp.json = "malformed" THEN Raise("JSONDecodeError")
    ELSE IF resp.json = "list" THEN Raise("AttributeError")
    ELSE scan_games(resp.games, <<>>, team_name, slug, yesterday)

\* the handler as it would be as `except requests.RequestException`
except_request_errors_only(e) == e \in {"ConnectionError", "Timeout"}

\* `except Exception`: every exception class of the body derives from Exception
except_Exception(e) == TRUE

\* fetch_ncaa_results: what it returns, the exception that leaves it ("none" when
\* it returns) and whether it showed st.error
fetch_ncaa_results(resp, team_name, slug, now) ==
    LET out == fetch_body(resp, team_name, slug, yesterday_of(now)) IN
    IF out.exc = "none" THEN [ret |-> out.value, raised |-> "none", st_error |-> FALSE]
    ELSE IF except_Exception(out.exc) THEN [ret |-> <<>>, raised |-> "none", st_error |-> TRUE]
    ELSE [ret |-> <<>>, raised |-> out.exc, st_error |-> FALSE]

----------------------------------------------------------------------------
(* Dashboard: the Head-to-Head composite metrics *)

\* wins, losses and ties of the records of opponent
composite_record(frame, opponent) ==
    LET Against(r) == r.OpposingTeam = opponent
        filtered == SelectSeq(frame, Against)
        Won(r) == r.Result = Win
        Lost(r) == r.Result = Loss
        Tied(r) == r.Result = Tie
    IN [wins |-> Len(SelectSeq(filtered, Won)),
        losses |-> Len(SelectSeq(filtered, Lost)),
        ties |-> Len(SelectSeq(filtered, Tied))]

----------------------------------------------------------------------------
(* The Streamlit script: one run, top to bottom *)

sport_map ==
       ("Football (FBS)" :> [slug |-> <<"f", "o", "o", "t", "b", "a", "l", "l">>, div |-> "fbs"])
    @@ ("Men's Basketball (D1)" :> [slug |-> <<"b", "a", "s", "k", "e", "t", "b", "a", "l", "l", "-", "m", "e", "n">>, div |-> "d1"])
    @@ ("Women's Basketball (D1)" :> [slug |-> <<"b", "a", "s", "k", "e", "t", "b", "a", "l", "l", "-", "w", "o", "m", "e", "n">>, div |-> "d1"])
    @@ ("Women's Soccer (D1)" :> [slug |-> <<"s", "o", "c", "c", "e", "r", "-", "w", "o", "m", "e", "n">>, div |-> "d1"])
    @@ ("Women's Volleyball (D1)" :> [slug |-> <<"v", "o", "l", "l", "e", "y", "b", "a", "l", "l", "-", "w", "o", "m", "e", "n">>, div |-> "d1"])
    @@ ("Baseball (D1)" :> [slug |-> <<"b", "a", "s", "e", "b", "a", "l", "l">>, div |-> "d1"])
    @@ ("Softball (D1)" :> [slug |-> <<"s", "o", "f", "t", "b", "a", "l", "l">>, div |-> "d1"])

\* st.secrets.get("ADMIN_PASSWORD", "cougars123")
stored_password(secrets) == IF secrets = "unset" THEN "cougars123" ELSE secrets

\* the check as it would be if any entered password passed
access_to_any_password(entered, stored) == entered # ""

\* password == stored_password
access_granted(entered, stored) == entered = stored

\* st.button(label): True only in the run its own click triggered
button(label, trigger) == trigger = label

NoUpload == [exists |-> FALSE, rows |-> <<>>]

NoSelection == <<"None">>

\* no call of fetch_ncaa_results in the run
NotFetched == [ret |-> <<>>, raised |-> "none", st_error |-> FALSE]

EmptyCache == [valid |-> FALSE, df |-> <<>>]

\* sorted(df['Opposing Team'].unique()), as a set
all_opponents(frame) == { frame[k].OpposingTeam : k \in DOMAIN frame }

\* what one run of the script does, given the widget values the session holds, the
\* button whose click triggered it, the scoreboard's response and whether GitHub
\* accepts a commit
ScriptRun(m, entered, sel, file, opponent, trigger, resp, github_ok) ==
    \E frame \in { IF cache.valid THEN cache.df ELSE load_data(csv, today) } :
    \E admin \in { m = "Admin Update" } :
    \E granted \in { admin /\ access_granted(entered, stored_password(secret)) } :
    \E checking \in { granted /\ button("Check Yesterday's Scores", trigger) } :
    \E fetched \in { IF checking THEN fetch_ncaa_results(resp, BYU, sport_map[sel].slug, today)
                     ELSE NotFetched } :
    \E found \in { checking /\ fetched.ret # <<>> } :
    \E confirming \in { found /\ button("Confirm & Save to Database", trigger) } :
    \E uploaded \in { granted /\ file.exists } :
    \E merging \in { uploaded /\ button("Merge Manual Upload", trigger) } :
    \E incoming \in { IF confirming THEN fetched.ret ELSE IF uploaded THEN file.rows ELSE <<>> } :
    \E merged \in { IF confirming \/ merging THEN merge(incoming, frame) ELSE <<>> } :
    \* save_to_github: repo.get_contents raises when the repository has no file
    \E saved \in { (confirming \/ merging) /\ github_ok /\ csv.exists } :
    \E dashboard \in { ~admin /\ frame # <<>> } :
    \E chosen \in { IF dashboard /\ opponent \in all_opponents(frame) THEN opponent ELSE NoSelection } :
    /\ mode' = m
    /\ password' = IF admin THEN entered ELSE ""
    /\ sport_selection' = IF granted THEN sel ELSE "Football (FBS)"
    /\ uploaded_file' = IF granted THEN file ELSE NoUpload
    /\ selected_opponent' = chosen
    /\ clicked' = trigger
    /\ df' = frame
    /\ response' = IF checking THEN resp ELSE None
    /\ sport_slug' = IF checking THEN sport_map[sel].slug ELSE None
    /\ results' = IF checking THEN fetched ELSE None
    /\ new_data' = incoming
    /\ updated_df' = merged
    /\ csv' = IF saved THEN File(to_csv(merged)) ELSE csv
    /\ cache' = IF saved THEN EmptyCache ELSE [valid |-> TRUE, df |-> frame]
    /\ rendered' =
          {"View Mode"}
          \cup (IF admin THEN {"Enter Admin Password"} ELSE {})
          \cup (IF granted THEN {"Select Sport", "Check Yesterday's Scores",
                                 "Download CSV Template", "Upload CSV"} ELSE {})
          \cup (IF found THEN {"Confirm & Save to Database"} ELSE {})
          \cup (IF uploaded THEN {"Merge Manual Upload"} ELSE {})
          \cup (IF dashboard THEN {"Select Opponent"} ELSE {})
    /\ run' = [granted |-> granted,
               fetch_called |-> checking,
               merge_called |-> confirming \/ merging,
               save_called |-> confirming \/ merging,
               save_ok |-> saved,
               cache_cleared |-> saved,
               record |-> IF chosen # NoSelection THEN composite_record(frame, chosen)
                          ELSE [wins |-> 0, losses |-> 0, ties |-> 0]]
    /\ pc' = "session"
    /\ UNCHANGED <<today, secret, cleanVars>>

----------------------------------------------------------------------------
(* Bounds and input sets *)

MaxPieces == 3        \* pieces concatenated into an opponent name
MaxYear == 3          \* years 0..MaxYear appear in Date cells
MaxRows == 2          \* rows of the persisted CSV (load_data)
MaxPad == 1           \* spaces around a Result cell
MaxResultRows == 2    \* rows of the persisted CSV (Result cells)
MaxExisting == 2      \* rows of the persisted CSV (merge)
MaxIncoming == 2      \* rows of an incoming batch (merge)
MaxGames == 2         \* games of a scoreboard response

Utah == <<"U", "t", "a", "h">>

SDSU == <<"S", "D", "S", "U">>

SanDiegoState == mappings[SDSU]

Football == <<"F", "o", "o", "t", "b", "a", "l", "l">>

Score_10_7 == <<"1", "0", "-", "7">>

Score_14_7 == <<"1", "4", "-", "7">>

NamePieces ==
    { <<" ">>, <<".">>, Univ,
      <<"B", "o", "i", "s", "e", " ", "S", "t">>,
      SDSU, Utah,
      <<"e", "r", "s", "i", "t", "y">> }

RECURSIVE Concats(_)
Concats(k) ==
    IF k = 0 THEN { <<>> }
    ELSE LET shorter == Concats(k - 1) IN
         shorter \cup { s \o p : s \in shorter, p \in NamePieces }

NameInputs == Concats(MaxPieces)

\* the sequences of at most n elements of S
SeqsUpTo(S, n) == UNION { [1..k -> S] : k \in 0..n }

Years == 0..MaxYear

Days == 1..DaysPerYear

\* the current date: a day of the middle year
Todays == { [y |-> MaxYear \div 2, d |-> d] : d \in Days }

DateCells == { StrDate(y, d) : y \in Years, d \in Days } \cup { JunkDate, NanDate }

LoadRows ==
    [Date : DateCells, Sport : {Football}, OpposingTeam : {Utah, NaN},
     Score : {Score_10_7}, Result : {Win}]

\* the spellings of word in either case of each letter
CaseVariants(word) ==
    { s \in [DOMAIN word -> UNION { {lower(word[i]), upper(word[i])} : i \in DOMAIN word }] :
        \A i \in DOMAIN word : s[i] \in {lower(word[i]), upper(word[i])} }

Spaces(n) == [i \in 1..n |-> " "]

\* the texts that differ from word by letter case and surrounding spaces only
Variants(word) ==
    { Spaces(l) \o s \o Spaces(r) : s \in CaseVariants(word), l \in 0..MaxPad, r \in 0..MaxPad }

ResultCells == Variants(Win) \cup Variants(Loss) \cup Variants(Tie) \cup {NaN}

ResultRows ==
    [Date : {StrDate(MaxYear \div 2, 1)}, Sport : {Football}, OpposingTeam : {Utah},
     Score : {Score_10_7}, Result : ResultCells]

MergeDays == {1, DaysPerYear}

\* rows of the persisted file and of an incoming batch: the existing ones carry the
\* canonical name and the old score, the incoming ones the alias and either score
ExistingRows ==
    [Date : { StrDate(MaxYear \div 2, d) : d \in MergeDays }, Sport : {Football},
     OpposingTeam : {SanDiegoState, Utah}, Score : {Score_10_7}, Result : {Win}]

IncomingRows ==
    [Date : { StrDate(MaxYear \div 2, d) : d \in MergeDays }, Sport : {Football},
     OpposingTeam : {SDSU, Utah}, Score : {Score_10_7, Score_14_7}, Result : {Win}]

Games ==
    [home : {BYU, Utah, Missing}, away : {BYU, SDSU},
     home_score : { <<"7">>, <<"2", "1">>, <<"F">>, Missing },
     away_score : { <<"7">>, <<>> }]

Http(status_code, json, games) ==
    [kind |-> "http", exc |-> "none", status_code |-> status_code, json |-> json, games |-> games]

RequestFails(exc) ==
    [kind |-> "exception", exc |-> exc, status_code |-> 0, json |-> "none", games |-> <<>>]

Responses ==
    { RequestFails(e) : e \in {"ConnectionError", "Timeout"} }
    \cup { Http(404, "none", <<>>), Http(500, "none", <<>>),
           Http(200, "malformed", <<>>), Http(200, "list", <<>>) }
    \cup { Http(200, "dict", g) : g \in SeqsUpTo(Games, MaxGames) }

----------------------------------------------------------------------------
(* Specifications of the single operations *)

IdleClean == name = None /\ cleaned = None

IdleData == csv = None /\ today = None /\ df = None

IdleMerge == clicked = None /\ new_data = None /\ updated_df = None

IdleFetch == response = None /\ sport_slug = None /\ results = None

IdleApp ==
    /\ mode = None /\ password = None /\ secret = None /\ sport_selection = None
    /\ uploaded_file = None /\ selected_opponent = None /\ cache = None
    /\ rendered = None /\ run = None

\* clean_opponent_name on every input name
InitClean ==
    /\ pc = "start"
    /\ name \in NameInputs
    /\ cleaned = None
    /\ IdleData /\ IdleMerge /\ IdleFetch /\ IdleApp

CleanOpponentName ==
    /\ pc = "start"
    /\ cleaned' = clean_opponent_name(name)
    /\ pc' = "done"
    /\ UNCHANGED <<name, dataVars, mergeVars, fetchVars, appVars>>

NextClean == CleanOpponentName

SpecClean == InitClean /\ [][NextClean]_vars

\* load_data on every persisted file
LoadData ==
    /\ pc = "start"
    /\ df' = load_data(csv, today)
    /\ pc' = "loaded"
    /\ UNCHANGED <<csv, today, cleanVars, mergeVars, fetchVars, appVars>>

InitLoad ==
    /\ pc = "start"
    /\ csv \in { File(rows) : rows \in SeqsUpTo(LoadRows, MaxRows) } \cup { NoFile }
    /\ today \in Todays
    /\ df = None
    /\ IdleClean /\ IdleMerge /\ IdleFetch /\ IdleApp

NextLoad == LoadData

SpecLoad == InitLoad /\ [][NextLoad]_vars

InitLoadResult ==
    /\ pc = "start"
    /\ csv \in { File(rows) : rows \in SeqsUpTo(ResultRows, MaxResultRows) }
    /\ today \in Todays
    /\ df = None
    /\ IdleClean /\ IdleMerge /\ IdleFetch /\ IdleApp

SpecLoadResult == InitLoadResult /\ [][NextLoad]_vars

\* the two merges, on every loaded dataset and every incoming batch
InitMerge ==
    /\ pc = "start"
    /\ csv \in { File(rows) : rows \in SeqsUpTo(ExistingRows, MaxExisting) }
    /\ today = [y |-> MaxYear \div 2, d |-> 1]
    /\ df = None
    /\ \E batch \in SeqsUpTo(IncomingRows, MaxIncoming) :
          \/ clicked = "merge" /\ new_data = batch
          \/ clicked = "confirm" /\ batch # <<>> /\ new_data = batch
    /\ updated_df = None
    /\ IdleClean /\ IdleFetch /\ IdleApp

ConfirmAndSaveMerge ==
    /\ pc = "loaded" /\ clicked = "confirm"
    /\ updated_df' = merge(new_data, df)
    /\ pc' = "merged"
    /\ UNCHANGED <<dataVars, clicked, new_data, cleanVars, fetchVars, appVars>>

MergeManualUploadMerge ==
    /\ pc = "loaded" /\ clicked = "merge"
    /\ updated_df' = merge(new_data, df)
    /\ pc' = "merged"
    /\ UNCHANGED <<dataVars, clicked, new_data, cleanVars, fetchVars, appVars>>

NextMerge == LoadData \/ ConfirmAndSaveMerge \/ MergeManualUploadMerge

SpecMerge == InitMerge /\ [][NextMerge]_vars

\* fetch_ncaa_results on every outcome of the scoreboard request
InitFetch ==
    /\ pc = "start"
    /\ response \in Responses
    /\ sport_slug = sport_map["Men's Basketball (D1)"].slug
    /\ today \in Todays
    /\ results = None
    /\ csv = None /\ df = None
    /\ IdleClean /\ IdleMerge /\ IdleApp

FetchNcaaResults ==
    /\ pc = "start"
    /\ results' = fetch_ncaa_results(response, BYU, sport_slug, today)
    /\ pc' = "fetched"
    /\ UNCHANGED <<response, sport_slug, dataVars, cleanVars, mergeVars, appVars>>

NextFetch == FetchNcaaResults

SpecFetch == InitFetch /\ [][NextFetch]_vars

----------------------------------------------------------------------------
(* The application: a browser session on the script *)

Passwords == {"", "cougars123", "hunter2"}

AppExisting ==
    [Date |-> StrDate(MaxYear \div 2, 1), Sport |-> Football, OpposingTeam |-> SanDiegoState,
     Score |-> Score_10_7, Result |-> Win]

AppIncoming ==
    [Date |-> StrDate(MaxYear \div 2, 1), Sport |-> Football, OpposingTeam |-> SDSU,
     Score |-> Score_14_7, Result |-> Win]

UploadFiles == { File(<<>>), File(<<AppIncoming>>) }

AppResponses ==
    { RequestFails("Timeout"), Http(404, "none", <<>>),
      Http(200, "dict", <<[home |-> BYU, away |-> SDSU, home_score |-> <<"2", "1">>,
                            away_score |-> <<"7">>]>>) }

InitApp ==
    /\ pc = "new"
    /\ csv \in { NoFile, File(<<AppExisting>>) }
    /\ today = [y |-> MaxYear \div 2, d |-> 1]
    /\ secret \in {"unset", "hunter2"}
    /\ mode = "Dashboard"
    /\ password = ""
    /\ sport_selection = "Football (FBS)"
    /\ uploaded_file = NoUpload
    /\ selected_opponent = NoSelection
    /\ cache = EmptyCache
    /\ rendered = {}
    /\ run = None
    /\ clicked = "none"
    /\ df = <<>> /\ new_data = <<>> /\ updated_df = <<>>
    /\ IdleClean /\ IdleFetch

\* opening the page runs the script
OpenApp ==
    /\ pc = "new"
    /\ ScriptRun(mode, password, sport_selection, uploaded_file, selected_opponent,
                 "none", None, TRUE)

SelectMode ==
    /\ pc = "session" /\ "View Mode" \in rendered
    /\ \E m \in {"Dashboard", "Admin Update"} :
          /\ m # mode
          /\ ScriptRun(m, password, sport_selection, uploaded_file, selected_opponent,
                       "none", None, TRUE)

EnterPassword ==
    /\ pc = "session" /\ "Enter Admin Password" \in rendered
    /\ \E entered \in Passwords :
          /\ entered # password
          /\ ScriptRun(mode, entered, sport_selection, uploaded_file, selected_opponent,
                       "none", None, TRUE)

SelectSport ==
    /\ pc = "session" /\ "Select Sport" \in rendered
    /\ \E sel \in DOMAIN sport_map :
          /\ sel # sport_selection
          /\ ScriptRun(mode, password, sel, uploaded_file, selected_opponent,
                       "none", None, TRUE)

ClickCheck ==
    /\ pc = "session" /\ "Check Yesterday's Scores" \in rendered
    /\ \E resp \in AppResponses :
          ScriptRun(mode, password, sport_selection, uploaded_file, selected_opponent,
                    "Check Yesterday's Scores", resp, TRUE)

ClickConfirm ==
    /\ pc = "session" /\ "Confirm & Save to Database" \in rendered
    /\ \E github_ok \in BOOLEAN :
          ScriptRun(mode, password, sport_selection, uploaded_file, selected_opponent,
                    "Confirm & Save to Database", None, github_ok)

ClickDownload ==
    /\ pc = "session" /\ "Download CSV Template" \in rendered
    /\ ScriptRun(mode, password, sport_selection, uploaded_file, selected_opponent,
                 "Download CSV Template", None, TRUE)

UploadFile ==
    /\ pc = "session" /\ "Upload CSV" \in rendered
    /\ \E file \in UploadFiles \cup {NoUpload} :
          /\ file # uploaded_file
          /\ ScriptRun(mode, password, sport_selection, file, selected_opponent,
                       "none", None, TRUE)

ClickMerge ==
    /\ pc = "session" /\ "Merge Manual Upload" \in rendered
    /\ \E github_ok \in BOOLEAN :
          ScriptRun(mode, password, sport_selection, uploaded_file, selected_opponent,
                    "Merge Manual Upload", None, github_ok)

SelectOpponent ==
    /\ pc = "session" /\ "Select Opponent" \in rendered
    /\ \E opponent \in all_opponents(df) \cup {NoSelection} :
          /\ opponent # selected_opponent
          /\ ScriptRun(mode, password, sport_selection, uploaded_file, opponent,
                       "none", None, TRUE)

\* @st.cache_data(ttl=60): the cached DataFrame expires
CacheExpires ==
    /\ pc = "session" /\ cache.valid
    /\ cache' = EmptyCache
    /\ UNCHANGED <<pc, cleanVars, dataVars, mergeVars, fetchVars, mode, password, secret,
                   sport_selection, uploaded_file, selected_opponent, rendered, run>>

Next ==
    \/ OpenApp \/ SelectMode \/ EnterPassword \/ SelectSport \/ ClickCheck \/ ClickConfirm
    \/ ClickDownload \/ UploadFile \/ ClickMerge \/ SelectOpponent \/ CacheExpires

Spec == InitApp /\ [][Next]_vars

----------------------------------------------------------------------------
(* Claims about clean_opponent_name (SpecClean) *)

\* the canonicalization as specified: strip, the alias table first, then every
\* period removed and one trailing " Univ" removed
canonicalize_specified(raw) ==
    LET n == strip(raw) IN
    IF n \in DOMAIN mappings THEN mappings[n]
    ELSE LET m == replace(n, <<".">>, <<>>) IN
         IF endswith(m, Univ) THEN Prefix(m, Len(m) - Len(Univ)) ELSE m

\* C6: for every input string, clean_opponent_name returns the specified
\* canonicalization: the mapped name for an exact alias, otherwise the trimmed
\* string without periods and without its one trailing " Univ", every other
\* character (earlier occurrences of " Univ" included) unchanged.
C6_CleanIsSpecified == pc = "done" => cleaned = canonicalize_specified(name)

----------------------------------------------------------------------------
(* Claims about load_data (SpecLoad, SpecLoadResult) *)

\* the canonical opponent name load_data gives a cell of the Opposing Team column
CanonicalOf(cell) == clean_opponent_name(astype_str(fillna(cell, Unknown)))

\* the rows of df that come from row i of the file (pandas keeps the index)
Loaded(i) == { k \in DOMAIN df : df[k].index = i - 1 }

\* D is more than one year after T
MoreThanOneYearAfter(D, T) == D.y > T.y + 1 \/ (D.y = T.y + 1 /\ D.d > T.d)

\* C4: every row whose Date is missing or unparseable and whose opponent is no
\* junk name is still in the dataset load_data returns, its date the null sentinel.
C4_UnparseableDateRetained ==
    pc = "loaded" =>
        \A i \in DOMAIN csv.rows :
            (to_datetime(csv.rows[i].Date) = NaT /\ CanonicalOf(csv.rows[i].OpposingTeam) \notin JunkNames)
            => \E k \in Loaded(i) : df[k].Date = NaT

\* C5 as claimed: a row dated more than one year after the current date is absent
\* from the loaded dataset, and a row dated at most one year after it (with no junk
\* opponent) is present.
C5_FutureGuardOneYear ==
    pc = "loaded" =>
        \A i \in DOMAIN csv.rows :
            LET D == to_datetime(csv.rows[i].Date) IN
            (D # NaT /\ CanonicalOf(csv.rows[i].OpposingTeam) \notin JunkNames)
            => (Loaded(i) = {} <=> MoreThanOneYearAfter(D, today))

\* C5 as amended: a row whose parsed date falls in a calendar year later than the
\* year after the current one is absent from the loaded dataset, and a row whose
\* parsed date falls in the current year's successor or earlier (so every row dated
\* at most one year ahead) is not removed by the guard.
C5_FutureGuardCalendarYear ==
    pc = "loaded" =>
        \A i \in DOMAIN csv.rows :
            LET D == to_datetime(csv.rows[i].Date) IN
            (D # NaT /\ CanonicalOf(csv.rows[i].OpposingTeam) \notin JunkNames)
            => (Loaded(i) = {} <=> D.y > today.y + 1)

\* a loaded file with a row two calendar years ahead, dropped, and a row more than
\* one year ahead in next calendar year, kept
C5_Witness ==
    /\ pc = "loaded"
    /\ \E i, j \in DOMAIN csv.rows :
          /\ to_datetime(csv.rows[i].Date).kind = "ts"
          /\ to_datetime(csv.rows[i].Date).y > today.y + 1
          /\ Loaded(i) = {}
          /\ to_datetime(csv.rows[j].Date).kind = "ts"
          /\ to_datetime(csv.rows[j].Date).y = today.y + 1
          /\ MoreThanOneYearAfter(to_datetime(csv.rows[j].Date), today)
          /\ Loaded(j) # {}

lower_all(s) == [i \in DOMAIN s |-> lower(s[i])]

\* cell differs from word by letter case and surrounding whitespace only
DiffersByCaseAndSpace(cell, word) == cell # NaN /\ lower_all(strip(cell)) = lower_all(word)

\* C7: a Result cell that differs from "Win" (likewise "Loss", "Tie") only by letter
\* case and surrounding whitespace is loaded as exactly "Win", so the record is
\* counted by the dashboard's Result == 'Win' tally.
C7_ResultNormalized ==
    pc = "loaded" =>
        /\ \A k \in DOMAIN df : \A word \in {Win, Loss, Tie} :
              DiffersByCaseAndSpace(csv.rows[df[k].index + 1].Result, word) => df[k].Result = word
        /\ composite_record(df, Utah).wins =
              Cardinality({ k \in DOMAIN df : DiffersByCaseAndSpace(csv.rows[df[k].index + 1].Result, Win) })

----------------------------------------------------------------------------
(* Claims about the merges (SpecMerge) *)

\* the logical identity key (date, sport, canonical opponent) of a record of a frame
\* given by load_data or by concat
KeyOf(r) ==
    <<to_datetime(r.Date), r.Sport,
      clean_opponent_name(IF r.Opponent_Raw # NaN THEN r.Opponent_Raw
                          ELSE astype_str(fillna(r.OpposingTeam, Unknown)))>>

\* the logical identity key of a record of an incoming batch
IncomingKeyOf(r) == <<to_datetime(r.Date), r.Sport, CanonicalOf(r.OpposingTeam)>>

WithKey(frame, K) == LET Has(r) == KeyOf(r) = K IN SelectSeq(frame, Has)

FirstIncomingWithKey(K) ==
    new_data[CHOOSE i \in DOMAIN new_data :
                /\ IncomingKeyOf(new_data[i]) = K
                /\ \A j \in 1..(i - 1) : IncomingKeyOf(new_data[j]) # K]

\* C1: when a record of the incoming batch and a record of the existing dataset
\* have the same logical identity key, the merged dataset holds exactly one record
\* with that key and it carries the Score of the first incoming record with the key.
C1_IncomingWins ==
    pc = "merged" =>
        \A i \in DOMAIN new_data : \A e \in DOMAIN df :
            IncomingKeyOf(new_data[i]) = KeyOf(df[e]) =>
                LET kept == WithKey(updated_df, KeyOf(df[e])) IN
                /\ Len(kept) = 1
                /\ kept[1].Score = FirstIncomingWithKey(KeyOf(df[e])).Score

\* C2: no two records of the merged dataset have the same logical identity key.
C2_KeysUnique ==
    pc = "merged" =>
        \A i, j \in DOMAIN updated_df : i # j => KeyOf(updated_df[i]) # KeyOf(updated_df[j])

KeysOfIncoming == { IncomingKeyOf(new_data[i]) : i \in DOMAIN new_data }

KeysOfExisting == { KeyOf(df[e]) : e \in DOMAIN df }

\* C3 as claimed: when no key of the incoming batch occurs in the existing dataset,
\* the merged dataset has len(E) + len(I) records (so an empty batch leaves the
\* number of records of E unchanged).
C3_DisjointUnion ==
    pc = "merged" =>
        (KeysOfIncoming \cap KeysOfExisting = {} => Len(updated_df) = Len(df) + Len(new_data))

\* C3 as amended: when no key of the incoming batch occurs in the existing dataset
\* and no key occurs twice within the existing dataset or within the batch, the
\* merged dataset has len(E) + len(I) records.
C3_DisjointDistinctUnion ==
    pc = "merged" =>
        ((/\ KeysOfIncoming \cap KeysOfExisting = {}
          /\ Cardinality(KeysOfIncoming) = Len(new_data)
          /\ Cardinality(KeysOfExisting) = Len(df))
         => Len(updated_df) = Len(df) + Len(new_data))

\* a merge of two existing records and two incoming ones, all of different keys
C3_Witness ==
    /\ pc = "merged"
    /\ Len(df) = 2 /\ Len(new_data) = 2
    /\ KeysOfIncoming \cap KeysOfExisting = {}
    /\ Cardinality(KeysOfIncoming) = 2
    /\ Cardinality(KeysOfExisting) = 2
    /\ Len(updated_df) = 4

----------------------------------------------------------------------------
(* Claims about fetch_ncaa_results (SpecFetch) *)

\* a game of the team with both scores present and one of them no integer literal
BadScore(game) ==
    /\ game.home # Missing /\ game.away # Missing
    /\ Contains(game.home, BYU) \/ Contains(game.away, BYU)
    /\ game.home_score # Missing /\ game.away_score # Missing
    /\ ~IsIntLiteral(game.home_score) \/ ~IsIntLiteral(game.away_score)

----------------------------------------------------------------------------
(* Claims about the admin flow (Spec) *)

\* C8: in the run triggered by the click on "Confirm & Save to Database" (the
\* button is on the page only after a click on "Check Yesterday's Scores" whose
\* fetch found a game, in Admin Update mode with the right password), the script
\* merges the fetched games with the loaded dataset and calls save_to_github.
C8_ConfirmClickSaves ==
    clicked = "Confirm & Save to Database" => (run.merge_called /\ run.save_called)

\* in the state: the fetch, the merge, the save and the cache clear of the last run
\* happened in Admin Update mode under the stored password, and the cache was
\* cleared only after a successful save
GateHeld ==
    pc = "session" =>
        /\ (run.fetch_called \/ run.merge_called \/ run.save_called \/ run.cache_cleared)
              => (mode = "Admin Update" /\ password = stored_password(secret))
        /\ run.cache_cleared => (run.save_called /\ run.save_ok)

\* C10: in every run, fetch_ncaa_results, the merge, save_to_github and
\* st.cache_data.clear are executed only in Admin Update mode with the entered
\* password equal to the stored one; otherwise the persisted dataset is not written;
\* and the cache is cleared only in a run where save_to_github returned success.
C10_AdminGate ==
    /\ []GateHeld
    /\ [][csv' # csv => (mode' = "Admin Update" /\ password' = stored_password(secret')
                         /\ run'.save_ok)]_vars
    /\ [][(cache.valid /\ ~cache'.valid /\ pc' = "session" /\ run' # run) => run'.save_ok]_vars

\* a run that merged an upload, saved it and cleared the cache, the stored password
\* being the secret and not the fallback
C10_Witness ==
    /\ pc = "session"
    /\ clicked = "Merge Manual Upload"
    /\ run.merge_called /\ run.save_ok /\ run.cache_cleared
    /\ secret = "hunter2" /\ password = "hunter2"
    /\ csv.rows # <<AppExisting>>

====
